---- MODULE Spec2Model ----
(***************************************************************************)
(* Model of the two notebooks of the repository:                           *)
(*   src/notebooks/tutorial011_WMTI_tutorial.ipynb  (nb = "wmti")          *)
(*   src/unnamed/part_000, the HARDI probabilistic tractography notebook   *)
(*                                                    (nb = "tract")       *)
(* A run executes the statements of the code cells top to bottom.  Every   *)
(* statement is one action; a raised exception ends the run.  Arrays over  *)
(* the voxel grid are sequences indexed by 1..NVox; an array that has not  *)
(* been created yet is the empty sequence.  Floating point values are      *)
(* modelled as exact fractions, NaN included.                              *)
(***************************************************************************)
EXTENDS Integers, Sequences, FiniteSets, TLC

\* ------------------------------------------------------------------ bounds
NVox == 2          \* voxels of the image grid
MaxVol == 2        \* largest number of diffusion volumes, data.shape[-1]

Vox == 1..NVox

\* ------------------------------------------------------- numeric values
\* A float: NaN, or the fraction n/d with d > 0.
NaN == [nan |-> TRUE, n |-> 0, d |-> 1]
Num(a, b) == [nan |-> FALSE, n |-> a, d |-> b]

\* numpy true_divide on the eigenvalue sums: 0/0 is NaN ("invalid value
\* encountered in true_divide"); eigenvalues are non-negative, so a zero sum
\* has a zero numerator.
true_divide(a, s) == IF s = 0 THEN NaN ELSE Num(a, s)

\* Thresholds of the notebook, in hundredths.
ClThreshold == 40
CpThreshold == 20
CsThreshold == 35

\* numpy comparisons of a float with a threshold t/100: any comparison with
\* NaN is False.
less(x, t) == (~x.nan) /\ x.n * 100 < t * x.d
\* (variant: >= in place of >)
greater_or_equal(x, t) == (~x.nan) /\ x.n * 100 >= t * x.d
greater(x, t) == (~x.nan) /\ x.n * 100 > t * x.d
\* (variant: a test that finds no NaN)
isnan_never(x) == FALSE
isnan(x) == x.nan

\* arr[cond] = val : boolean-mask assignment.
MaskAssign(arr, cond, val) ==
    [i \in DOMAIN arr |-> IF cond[i] THEN val ELSE arr[i]]

\* ------------------------------------------------------ library outputs
\* Eigenvalue triples (ev1 >= ev2 >= ev3 >= 0) a DKI fit may return for a
\* voxel, up to scale: cl, cp and cs depend on the ratios only.
\*   <<0,0,0>>    no signal: cl = cp = cs = NaN
\*   <<8,1,1>>    cl 0.7,  cp 0,    cs 0.3   well aligned
\*   <<7,2,1>>    cl 0.5,  cp 0.2,  cs 0.3   cp on its threshold
\*   <<43,10,7>>  cl 0.55, cp 0.1,  cs 0.35  cs on its threshold
\*   <<3,1,1>>    cl 0.4,  cp 0,    cs 0.6   cl on its threshold
\*   <<7,3,0>>    cl 0.4,  cp 0.6,  cs 0     planar
\*   <<6,3,1>>    cl 0.3,  cp 0.4,  cs 0.3
\*   <<2,2,2>>    cl 0,    cp 0,    cs 1     isotropic
EvalSet == { <<0,0,0>>, <<8,1,1>>, <<7,2,1>>, <<43,10,7>>, <<3,1,1>>,
             <<7,3,0>>, <<6,3,1>>, <<2,2,2>> }
ZeroEvals == <<0,0,0>>

\* dipy/reconst/dti.py, as quoted by the captured warnings.
linearity(ev) == true_divide(ev[1] - ev[2], ev[1] + ev[2] + ev[3])
planarity(ev) == true_divide(2 * (ev[2] - ev[3]), ev[1] + ev[2] + ev[3])
sphericity(ev) == true_divide(3 * ev[3], ev[1] + ev[2] + ev[3])

\* dkimodel.fit(data_smooth, mask=m): voxels outside the mask are not fitted
\* and keep zero parameters; voxels inside get some eigenvalues.
\* (variant: the mask is ignored and every voxel is fitted)
DkiFits_ignoring_mask(m) == [Vox -> EvalSet]
DkiFits(m) ==
    { f \in [Vox -> EvalSet] : \A i \in Vox : (~m[i]) => f[i] = ZeroEvals }

\* dki_micro_model.fit(data_smooth, mask=m): awf and tortuosity per voxel,
\* zero outside the mask and where the model has no solution.
MicroParams == { [awf |-> 0, tort |-> 0], [awf |-> 50, tort |-> 3] }
MicroFits(m) ==
    { f \in [Vox -> MicroParams] :
        \A i \in Vox : (~m[i]) => f[i] = [awf |-> 0, tort |-> 0] }

\* dkifit.mk(0, 3): mean kurtosis per voxel, zero outside the fit's mask.
MKValues == { Num(0, 1), Num(1, 1) }
MeanKurtosis(m) ==
    { f \in [Vox -> MKValues] : \A i \in Vox : (~m[i]) => f[i] = Num(0, 1) }

\* Volumes: volume i of the loaded data, a volume of zeros, and the result
\* of gaussian_filter(volume, sigma=gauss_std).
RawVolume(i) == [kind |-> "raw", idx |-> i]
ZeroVolume == [kind |-> "zeros", idx |-> -1]
gaussian_filter(vol) == [kind |-> "smooth", idx |-> vol.idx]

\* range(n): the values 0 .. n-1 in order.
\* (variant: one value short)
range_short(n) == [k \in 1..(n - 1) |-> k - 1]
range(n) == [k \in 1..n |-> k - 1]


\* ------------------------------------------------- seeds (tractography)
\* Affines of the loaded image: voxel to world, a zoom and an origin.
AffineSet == { [zoom |-> 1, origin |-> <<0, 0, 0>>],
               [zoom |-> 2, origin |-> <<-3, 5, 0>>] }

\* density=[2, 2, 2]
Density == <<2, 2, 2>>

\* Voxel i of the grid lies at index <<i - 1, 0, 0>> of the volume.
VoxCoord(i) == <<i - 1, 0, 0>>

\* np.argwhere(m): the indices of the True voxels, ascending.
RECURSIVE argwhereUpTo(_, _)
argwhereUpTo(m, k) ==
    IF k = 0 THEN <<>>
    ELSE IF m[k] THEN Append(argwhereUpTo(m, k - 1), k)
         ELSE argwhereUpTo(m, k - 1)
argwhere(m) == argwhereUpTo(m, Len(m))

\* Along one axis, density d places d points evenly inside the voxel, at
\* (k + 1/2)/d - 1/2 from its centre, k = 0..d-1.  Positions along axis a
\* are counted in units of 1/(2 d[a]) voxel, so the offsets are 2k + 1 - d.
GridAxis(d) == [k \in 1..d |-> 2 * (k - 1) + 1 - d]
Grid(density) ==
    [j \in 1..(density[1] * density[2] * density[3]) |->
        << GridAxis(density[1])[((j - 1) % density[1]) + 1],
           GridAxis(density[2])[(((j - 1) \div density[1]) % density[2]) + 1],
           GridAxis(density[3])[((j - 1) \div (density[1] * density[2])) + 1] >>]

\* World position of the point at grid offset g of voxel index c.
ToWorld(c, g, aff, density) ==
    [a \in 1..3 |->
        aff.zoom * (2 * density[a] * c[a] + g[a])
            + 2 * density[a] * aff.origin[a]]

\* utils.seeds_from_mask(m, affine, density): one row per True voxel and
\* grid point, voxel by voxel, moved to world coordinates.
seeds_from_mask(m, aff, density) ==
    LET where == argwhere(m)
        grid == Grid(density)
        G == Len(grid)
    IN [r \in 1..(Len(where) * G) |->
           ToWorld(VoxCoord(where[((r - 1) \div G) + 1]),
                   grid[((r - 1) % G) + 1], aff, density)]

\* The voxel index a world position falls in: the inverse affine, rounded
\* to the nearest voxel centre.
VoxelOf(w, aff, density) ==
    [a \in 1..3 |->
        (((w[a] - 2 * density[a] * aff.origin[a]) \div aff.zoom) + density[a])
            \div (2 * density[a])]

\* white_matter = (labels == 1) | (labels == 2)
WhiteMatter(lab) == [i \in DOMAIN lab |-> lab[i] = 1 \/ lab[i] = 2]

\* seed_mask = (labels == 2)
\* (variant: the whole white matter is seeded)
SeedMask_white_matter(lab) == [i \in DOMAIN lab |-> lab[i] = 1 \/ lab[i] = 2]
SeedMask(lab) == [i \in DOMAIN lab |-> lab[i] = 2]

\* ThresholdStoppingCriterion(csa_fit.gfa, .2), threshold in hundredths.
GfaThreshold == 20

\* ---------------------------------------------------------- the programs
\* The statements of the code cells, in cell order.
\* (variant: the mask is initialised before the DKI fit)
WMTIProgram_mask_before_fit ==
    << "import", "get_fnames", "load_nifti", "read_bvals_bvecs",
       "gradient_table", "median_otsu", "smooth_init", "smooth_for",
       "smooth_body", "micro_model", "dki_model", "wam_init", "dki_fit",
       "cl_copy", "cl_thr", "cp_copy", "cp_thr", "cs_copy", "cs_thr",
       "nan_cl", "nan_cp", "nan_cs", "micro_fit", "awf", "tort", "mk",
       "subplots", "awf_nan", "tort_nan", "imshow", "savefig" >>
WMTIProgram ==
    << "import", "get_fnames", "load_nifti", "read_bvals_bvecs",
       "gradient_table", "median_otsu", "smooth_init", "smooth_for",
       "smooth_body", "micro_model", "dki_model", "dki_fit", "wam_init",
       "cl_copy", "cl_thr", "cp_copy", "cp_thr", "cs_copy", "cs_thr",
       "nan_cl", "nan_cp", "nan_cs", "micro_fit", "awf", "tort", "mk",
       "subplots", "awf_nan", "tort_nan", "imshow", "savefig" >>

TractProgram ==
    << "import", "get_fnames", "load_nifti", "read_bvals_bvecs",
       "gradient_table", "load_labels", "white_matter", "median_otsu",
       "get_sphere", "csa_model", "csa_fit", "odf", "pmf", "prob_dg",
       "seed_mask", "seeds", "stopping_criterion", "local_tracking",
       "streamlines", "viz_import", "if_has_fury", "line_colors",
       "actor_line", "scene", "record", "show", "sft", "save_trk" >>

Program(n) == IF n = "wmti" THEN WMTIProgram ELSE TractProgram

\* Position of statement l in the listing (0 when it is not a statement).
IndexOf(prog, l) ==
    IF \E i \in DOMAIN prog : prog[i] = l
    THEN CHOOSE i \in DOMAIN prog : prog[i] = l
    ELSE 0

\* The statement that follows l in cell order; "done" after the last.
NextLabel(prog, l) ==
    IF IndexOf(prog, l) < Len(prog) THEN prog[IndexOf(prog, l) + 1]
    ELSE "done"

\* Output artifacts and the statements that write them.
PngWMTI == "Kurtosis_Microstructural_measures.png"
PngTract == "csa_probabilistic_tractogram.png"
TrkTract == "csa_CC_tractography_probabilistic.trk"

\* An exception raised by statement l is caught nowhere: the run ends.
\* (variant: the exception is swallowed and the next statement runs)
Propagate_swallowed(prog, l) == NextLabel(prog, l)
Propagate(prog, l) == "failed"

\* if has_fury: the body runs when the flag is set, else the cell ends.
\* (variant: the body runs whatever the flag)
IfHasFury_always(flag) == "line_colors"
IfHasFury(flag) == IF flag THEN "line_colors" ELSE "sft"


\* -------------------------------------------------------------- state
VARIABLES
    nb,                 \* which notebook is run: "wmti" or "tract"
    has_fury,           \* has_fury as imported from dipy.viz
    pc,                 \* the statement to execute next, "done" or "failed"
    failedAt,           \* the statement that raised, "none" if none did
    log,                \* the statements executed so far, in order
    files,              \* output artifacts written so far
    nvol, data,         \* WMTI: data.shape[-1] and the volumes of data
    affine,             \* tractography: the affine of the loaded image
    mask,               \* median_otsu's brain mask
    data_smooth, it, v, \* smoothing: the array, the range iterator, v
    dkifit,             \* eigenvalues of the DKI fit, per voxel
    well_aligned_mask, cl, cp, cs,
    dki_micro_fit,      \* the WMTI fit: the mask it was given and its result
    AWF, TORT, MK,
    labels, white_matter, csa_fit, seed_mask, seeds,
    stopping_criterion, streamlines

ctl == <<nb, has_fury, pc, failedAt, log>>
wmti == <<data_smooth, it, v, dkifit, well_aligned_mask, cl, cp, cs,
          dki_micro_fit, AWF, TORT, MK>>
tract == <<labels, white_matter, csa_fit, seed_mask, seeds,
           stopping_criterion, streamlines>>
input == <<nvol, data, affine, mask>>
vars == <<ctl, files, input, wmti, tract>>

Init ==
    /\ nb \in {"wmti", "tract"}
    /\ has_fury = FALSE
    /\ pc = "import"
    /\ failedAt = "none"
    /\ log = <<>>
    /\ files = {}
    /\ nvol = 0 /\ data = <<>> /\ affine = <<>> /\ mask = <<>>
    /\ data_smooth = <<>> /\ it = 0 /\ v = -1
    /\ dkifit = <<>> /\ well_aligned_mask = <<>>
    /\ cl = <<>> /\ cp = <<>> /\ cs = <<>>
    /\ dki_micro_fit = <<>> /\ AWF = <<>> /\ TORT = <<>> /\ MK = <<>>
    /\ labels = <<>> /\ white_matter = <<>> /\ csa_fit = <<>>
    /\ seed_mask = <<>> /\ seeds = <<>>
    /\ stopping_criterion = <<>> /\ streamlines = <<>>

\* Statement l completes: control moves to the statement after it.
Goto(l) ==
    /\ pc' = NextLabel(Program(nb), l)
    /\ log' = Append(log, l)
    /\ UNCHANGED <<nb, failedAt>>

\* -------------------------------------------------- statements of both
\* Statements whose result no later statement of this model reads: imports,
\* file names, gradient tables, model objects, plotting calls.  So are, of
\* load_nifti, the affine in the WMTI notebook and the data in the
\* tractography notebook.
PlainSteps(n) ==
    IF n = "wmti"
    THEN {"import", "get_fnames", "read_bvals_bvecs", "gradient_table",
          "micro_model", "dki_model", "subplots", "imshow"}
    ELSE {"import", "get_fnames", "read_bvals_bvecs", "gradient_table",
          "get_sphere", "csa_model", "odf", "pmf", "prob_dg",
          "local_tracking", "line_colors", "actor_line",
          "scene", "show", "sft"}

Call ==
    /\ pc \in PlainSteps(nb)
    /\ Goto(pc)
    /\ UNCHANGED <<has_fury, files, input, wmti, tract>>

\* maskdata, mask = median_otsu(data, ...)
MedianOtsu ==
    /\ pc = "median_otsu"
    /\ mask' \in [Vox -> BOOLEAN]
    /\ Goto("median_otsu")
    /\ UNCHANGED <<has_fury, files, nvol, data, affine, wmti, tract>>

\* A statement raises.
Fail ==
    /\ pc \notin {"done", "failed"}
    /\ failedAt = "none"
    /\ failedAt' = pc
    /\ pc' = Propagate(Program(nb), pc)
    /\ UNCHANGED <<nb, has_fury, log, files, input, wmti, tract>>


\* -------------------------------------------------- WMTI notebook only
W == nb = "wmti"

\* data, affine = load_nifti(fraw)
LoadNiftiW ==
    /\ W /\ pc = "load_nifti"
    /\ \E n \in 1..MaxVol :
          /\ nvol' = n
          /\ data' = [i \in 0..(n - 1) |-> RawVolume(i)]
    /\ Goto("load_nifti")
    /\ UNCHANGED <<has_fury, files, affine, mask, wmti, tract>>

\* fwhm = 1.25; gauss_std = ...; data_smooth = np.zeros(data.shape)
SmoothInit ==
    /\ W /\ pc = "smooth_init"
    /\ data_smooth' = [i \in 0..(nvol - 1) |-> ZeroVolume]
    /\ it' = 0
    /\ Goto("smooth_init")
    /\ UNCHANGED <<has_fury, files, input, v, dkifit, well_aligned_mask, cl,
                   cp, cs, dki_micro_fit, AWF, TORT, MK, tract>>

\* for v in range(data.shape[-1]): take the next value, or leave the loop.
SmoothFor ==
    /\ W /\ pc = "smooth_for"
    /\ IF it < Len(range(nvol))
       THEN /\ v' = range(nvol)[it + 1]
            /\ it' = it + 1
            /\ pc' = "smooth_body"
       ELSE /\ UNCHANGED <<v, it>>
            /\ pc' = NextLabel(WMTIProgram, "smooth_body")
    /\ log' = Append(log, "smooth_for")
    /\ UNCHANGED <<nb, has_fury, failedAt, files, input, data_smooth, dkifit,
                   well_aligned_mask, cl, cp, cs, dki_micro_fit, AWF, TORT,
                   MK, tract>>

\* data_smooth[..., v] = gaussian_filter(data[..., v], sigma=gauss_std)
\* (variant: every volume is computed from the first volume of data)
SmoothBody_first_volume ==
    /\ W /\ pc = "smooth_body"
    /\ data_smooth' = [data_smooth EXCEPT ![v] = gaussian_filter(data[0])]
    /\ pc' = "smooth_for"
    /\ log' = Append(log, "smooth_body")
    /\ UNCHANGED <<nb, has_fury, failedAt, files, input, it, v, dkifit,
                   well_aligned_mask, cl, cp, cs, dki_micro_fit, AWF, TORT,
                   MK, tract>>
SmoothBody ==
    /\ W /\ pc = "smooth_body"
    /\ data_smooth' = [data_smooth EXCEPT ![v] = gaussian_filter(data[v])]
    /\ pc' = "smooth_for"
    /\ log' = Append(log, "smooth_body")
    /\ UNCHANGED <<nb, has_fury, failedAt, files, input, it, v, dkifit,
                   well_aligned_mask, cl, cp, cs, dki_micro_fit, AWF, TORT,
                   MK, tract>>

\* dkifit = dkimodel.fit(data_smooth, mask=mask)
DkiFit ==
    /\ W /\ pc = "dki_fit"
    /\ dkifit' \in DkiFits(mask)
    /\ Goto("dki_fit")
    /\ UNCHANGED <<has_fury, files, input, data_smooth, it, v,
                   well_aligned_mask, cl, cp, cs, dki_micro_fit, AWF, TORT,
                   MK, tract>>

\* well_aligned_mask = np.ones(data.shape[:-1], dtype='bool')
WamInit ==
    /\ W /\ pc = "wam_init"
    /\ well_aligned_mask' = [i \in Vox |-> TRUE]
    /\ Goto("wam_init")
    /\ UNCHANGED <<has_fury, files, input, data_smooth, it, v, dkifit, cl, cp,
                   cs, dki_micro_fit, AWF, TORT, MK, tract>>

\* cl = dkifit.linearity.copy()
ClCopy ==
    /\ W /\ pc = "cl_copy"
    /\ cl' = [i \in Vox |-> linearity(dkifit[i])]
    /\ Goto("cl_copy")
    /\ UNCHANGED <<has_fury, files, input, data_smooth, it, v, dkifit,
                   well_aligned_mask, cp, cs, dki_micro_fit, AWF, TORT, MK,
                   tract>>

\* cp = dkifit.planarity.copy()
CpCopy ==
    /\ W /\ pc = "cp_copy"
    /\ cp' = [i \in Vox |-> planarity(dkifit[i])]
    /\ Goto("cp_copy")
    /\ UNCHANGED <<has_fury, files, input, data_smooth, it, v, dkifit,
                   well_aligned_mask, cl, cs, dki_micro_fit, AWF, TORT, MK,
                   tract>>

\* cs = dkifit.sphericity.copy()
CsCopy ==
    /\ W /\ pc = "cs_copy"
    /\ cs' = [i \in Vox |-> sphericity(dkifit[i])]
    /\ Goto("cs_copy")
    /\ UNCHANGED <<has_fury, files, input, data_smooth, it, v, dkifit,
                   well_aligned_mask, cl, cp, dki_micro_fit, AWF, TORT, MK,
                   tract>>

\* The statement at l clears well_aligned_mask where cond holds.
\* (variant: the mask is overwritten with the negated condition)
Exclude_overwrite(l, cond) ==
    /\ W /\ pc = l
    /\ well_aligned_mask' = [i \in Vox |-> ~cond[i]]
    /\ Goto(l)
    /\ UNCHANGED <<has_fury, files, input, data_smooth, it, v, dkifit, cl, cp,
                   cs, dki_micro_fit, AWF, TORT, MK, tract>>
Exclude(l, cond) ==
    /\ W /\ pc = l
    /\ well_aligned_mask' = MaskAssign(well_aligned_mask, cond, FALSE)
    /\ Goto(l)
    /\ UNCHANGED <<has_fury, files, input, data_smooth, it, v, dkifit, cl, cp,
                   cs, dki_micro_fit, AWF, TORT, MK, tract>>

\* well_aligned_mask[cl < 0.4] = False
ClThr == Exclude("cl_thr", [i \in Vox |-> less(cl[i], ClThreshold)])
\* well_aligned_mask[cp > 0.2] = False
CpThr == Exclude("cp_thr", [i \in Vox |-> greater(cp[i], CpThreshold)])
\* well_aligned_mask[cs > 0.35] = False
CsThr == Exclude("cs_thr", [i \in Vox |-> greater(cs[i], CsThreshold)])
\* well_aligned_mask[np.isnan(cl)] = False
NanCl == Exclude("nan_cl", [i \in Vox |-> isnan(cl[i])])
\* well_aligned_mask[np.isnan(cp)] = False
NanCp == Exclude("nan_cp", [i \in Vox |-> isnan(cp[i])])
\* well_aligned_mask[np.isnan(cs)] = False
NanCs == Exclude("nan_cs", [i \in Vox |-> isnan(cs[i])])

\* dki_micro_fit = dki_micro_model.fit(data_smooth, mask=well_aligned_mask)
MicroFit ==
    /\ W /\ pc = "micro_fit"
    /\ \E f \in MicroFits(well_aligned_mask) :
          dki_micro_fit' = [mask |-> well_aligned_mask, params |-> f]
    /\ Goto("micro_fit")
    /\ UNCHANGED <<has_fury, files, input, data_smooth, it, v, dkifit,
                   well_aligned_mask, cl, cp, cs, AWF, TORT, MK, tract>>

\* AWF = dki_micro_fit.awf
Awf ==
    /\ W /\ pc = "awf"
    /\ AWF' = [i \in Vox |-> Num(dki_micro_fit.params[i].awf, 100)]
    /\ Goto("awf")
    /\ UNCHANGED <<has_fury, files, input, data_smooth, it, v, dkifit,
                   well_aligned_mask, cl, cp, cs, dki_micro_fit, TORT, MK,
                   tract>>

\* TORT = dki_micro_fit.tortuosity
Tort ==
    /\ W /\ pc = "tort"
    /\ TORT' = [i \in Vox |-> Num(dki_micro_fit.params[i].tort, 1)]
    /\ Goto("tort")
    /\ UNCHANGED <<has_fury, files, input, data_smooth, it, v, dkifit,
                   well_aligned_mask, cl, cp, cs, dki_micro_fit, AWF, MK,
                   tract>>

\* MK = dkifit.mk(0, 3)
Mk ==
    /\ W /\ pc = "mk"
    /\ MK' \in MeanKurtosis(mask)
    /\ Goto("mk")
    /\ UNCHANGED <<has_fury, files, input, data_smooth, it, v, dkifit,
                   well_aligned_mask, cl, cp, cs, dki_micro_fit, AWF, TORT,
                   tract>>

\* x == 0 on floats
\* (variant: only values below zero are found)
iszero_negative(x) == (~x.nan) /\ x.n < 0
iszero(x) == (~x.nan) /\ x.n = 0

\* AWF[AWF == 0] = np.nan
AwfNan ==
    /\ W /\ pc = "awf_nan"
    /\ AWF' = MaskAssign(AWF, [i \in Vox |-> iszero(AWF[i])], NaN)
    /\ Goto("awf_nan")
    /\ UNCHANGED <<has_fury, files, input, data_smooth, it, v, dkifit,
                   well_aligned_mask, cl, cp, cs, dki_micro_fit, TORT, MK,
                   tract>>

\* TORT[TORT == 0] = np.nan
TortNan ==
    /\ W /\ pc = "tort_nan"
    /\ TORT' = MaskAssign(TORT, [i \in Vox |-> iszero(TORT[i])], NaN)
    /\ Goto("tort_nan")
    /\ UNCHANGED <<has_fury, files, input, data_smooth, it, v, dkifit,
                   well_aligned_mask, cl, cp, cs, dki_micro_fit, AWF, MK,
                   tract>>

\* fig1.savefig('Kurtosis_Microstructural_measures.png')
SaveFig ==
    /\ W /\ pc = "savefig"
    /\ files' = files \cup {PngWMTI}
    /\ Goto("savefig")
    /\ UNCHANGED <<has_fury, input, wmti, tract>>

\* ------------------------------------------ tractography notebook only
T == nb = "tract"

\* data, affine, hardi_img = load_nifti(hardi_fname, return_img=True)
LoadNiftiT ==
    /\ T /\ pc = "load_nifti"
    /\ affine' \in AffineSet
    /\ Goto("load_nifti")
    /\ UNCHANGED <<has_fury, files, nvol, data, mask, wmti, tract>>

\* from dipy.viz import window, actor, has_fury, colormap
VizImport ==
    /\ T /\ pc = "viz_import"
    /\ has_fury' \in BOOLEAN
    /\ Goto("viz_import")
    /\ UNCHANGED <<files, input, wmti, tract>>

\* labels = load_nifti_data(label_fname)
LoadLabels ==
    /\ T /\ pc = "load_labels"
    /\ labels' \in [Vox -> 0..2]
    /\ Goto("load_labels")
    /\ UNCHANGED <<has_fury, files, input, wmti, white_matter, csa_fit,
                   seed_mask, seeds, stopping_criterion, streamlines>>

\* white_matter = (labels == 1) | (labels == 2)
WhiteMatterStep ==
    /\ T /\ pc = "white_matter"
    /\ white_matter' = WhiteMatter(labels)
    /\ Goto("white_matter")
    /\ UNCHANGED <<has_fury, files, input, wmti, labels, csa_fit, seed_mask,
                   seeds, stopping_criterion, streamlines>>

\* csa_fit = csa_model.fit(data, mask=white_matter)
CsaFit ==
    /\ T /\ pc = "csa_fit"
    /\ csa_fit' = [mask |-> white_matter]
    /\ Goto("csa_fit")
    /\ UNCHANGED <<has_fury, files, input, wmti, labels, white_matter,
                   seed_mask, seeds, stopping_criterion, streamlines>>

\* seed_mask = (labels == 2)
SeedMaskStep ==
    /\ T /\ pc = "seed_mask"
    /\ seed_mask' = SeedMask(labels)
    /\ Goto("seed_mask")
    /\ UNCHANGED <<has_fury, files, input, wmti, labels, white_matter,
                   csa_fit, seeds, stopping_criterion, streamlines>>

\* seeds = utils.seeds_from_mask(seed_mask, affine, density=[2, 2, 2])
Seeds ==
    /\ T /\ pc = "seeds"
    /\ seeds' = seeds_from_mask(seed_mask, affine, Density)
    /\ Goto("seeds")
    /\ UNCHANGED <<has_fury, files, input, wmti, labels, white_matter,
                   csa_fit, seed_mask, stopping_criterion, streamlines>>

\* stopping_criterion = ThresholdStoppingCriterion(csa_fit.gfa, .2)
StoppingCriterion ==
    /\ T /\ pc = "stopping_criterion"
    /\ stopping_criterion' =
          [metric |-> "csa_fit.gfa", threshold |-> GfaThreshold]
    /\ Goto("stopping_criterion")
    /\ UNCHANGED <<has_fury, files, input, wmti, labels, white_matter,
                   csa_fit, seed_mask, seeds, streamlines>>

\* streamlines = Streamlines(streamlines_generator): the tracking runs here,
\* inside the library, from the seeds under the stopping criterion.
StreamlinesStep ==
    /\ T /\ pc = "streamlines"
    /\ streamlines' = [seeds |-> seeds, criterion |-> stopping_criterion]
    /\ Goto("streamlines")
    /\ UNCHANGED <<has_fury, files, input, wmti, labels, white_matter,
                   csa_fit, seed_mask, seeds, stopping_criterion>>

\* if has_fury:
IfFury ==
    /\ T /\ pc = "if_has_fury"
    /\ pc' = IfHasFury(has_fury)
    /\ log' = Append(log, "if_has_fury")
    /\ UNCHANGED <<nb, has_fury, failedAt, files, input, wmti, tract>>

\* window.record(scene, out_path='csa_probabilistic_tractogram.png', ...)
Record ==
    /\ T /\ pc = "record"
    /\ files' = files \cup {PngTract}
    /\ Goto("record")
    /\ UNCHANGED <<has_fury, input, wmti, tract>>

\* save_trk(sft, "csa_CC_tractography_probabilistic.trk", streamlines)
SaveTrk ==
    /\ T /\ pc = "save_trk"
    /\ files' = files \cup {TrkTract}
    /\ Goto("save_trk")
    /\ UNCHANGED <<has_fury, input, wmti, tract>>

Next ==
    \/ Call \/ MedianOtsu \/ Fail \/ LoadNiftiW \/ LoadNiftiT \/ VizImport
    \/ SmoothInit \/ SmoothFor \/ SmoothBody \/ DkiFit \/ WamInit
    \/ ClCopy \/ ClThr \/ CpCopy \/ CpThr \/ CsCopy \/ CsThr
    \/ NanCl \/ NanCp \/ NanCs \/ MicroFit \/ Awf \/ Tort \/ Mk
    \/ AwfNan \/ TortNan \/ SaveFig
    \/ LoadLabels \/ WhiteMatterStep \/ CsaFit \/ SeedMaskStep \/ Seeds
    \/ StoppingCriterion \/ StreamlinesStep \/ IfFury \/ Record \/ SaveTrk

Spec == Init /\ [][Next]_vars


\* ====================================================== the claims
Executed(l) == \E i \in DOMAIN log : log[i] = l
Count(l) == Cardinality({i \in DOMAIN log : log[i] = l})
Labels(prog) == {prog[i] : i \in DOMAIN prog}
\* Every executed statement of A comes before every executed one of B.
Precedes(A, B) ==
    \A j \in DOMAIN log :
        log[j] \in B => \A i \in j..Len(log) : log[i] \notin A
\* Comparisons of a modelled float with t/100, written out.
AtLeast(x, t) == x.n * 100 >= t * x.d
AtMost(x, t) == x.n * 100 <= t * x.d
Above(x, t) == x.n * 100 > t * x.d
Below(x, t) == x.n * 100 < t * x.d
AnyNaN(i) == cl[i] = NaN \/ cp[i] = NaN \/ cs[i] = NaN
MaskBuilt == nb = "wmti" /\ Executed("nan_cs")

\* C1: once the mask-building cell has run, every voxel whose cl, cp or cs
\* is NaN is False in well_aligned_mask, and False in the mask handed to the
\* microstructure fit.
C1_NaNVoxelsExcluded ==
    MaskBuilt =>
        /\ \A i \in Vox : AnyNaN(i) => ~well_aligned_mask[i]
        /\ Executed("micro_fit") =>
              \A i \in Vox : AnyNaN(i) => ~dki_micro_fit.mask[i]

\* A run that reached the end with a NaN voxel inside the brain mask.
C1_Witness ==
    /\ nb = "wmti" /\ pc = "done"
    /\ \E i \in Vox : mask[i] /\ cl[i] = NaN

\* C2: every voxel that is True in the final well_aligned_mask has
\* cl > 0.4, cp < 0.2 and cs < 0.35, all three strict.
C2_StrictThresholds ==
    MaskBuilt =>
        \A i \in Vox :
            well_aligned_mask[i] =>
                /\ ~AnyNaN(i)
                /\ Above(cl[i], ClThreshold)
                /\ Below(cp[i], CpThreshold)
                /\ Below(cs[i], CsThreshold)

C10_BackgroundExcluded ==
    nb = "wmti" =>
        /\ Executed("cs_copy") =>
              \A i \in Vox :
                  (~mask[i]) => (cl[i] = NaN /\ cp[i] = NaN /\ cs[i] = NaN)
        /\ pc = "nan_cl" =>
              \A i \in Vox : (~mask[i]) => well_aligned_mask[i]
        /\ Executed("nan_cs") =>
              \A i \in Vox : (~mask[i]) => ~well_aligned_mask[i]

\* A finished run in which some voxel is background and some voxel is kept.
C10_Witness ==
    /\ nb = "wmti" /\ pc = "done"
    /\ \E i \in Vox : ~mask[i]
    /\ \E i \in Vox : well_aligned_mask[i]

\* Phases of the WMTI notebook.
LoadSteps == {"get_fnames", "load_nifti", "read_bvals_bvecs", "gradient_table"}
BrainMaskSteps == {"median_otsu"}
SmoothSteps == {"smooth_init", "smooth_for", "smooth_body"}
FitSteps == {"dki_fit", "micro_fit"}
DeriveSteps == {"cl_copy", "cp_copy", "cs_copy", "awf", "tort", "mk"}
ThresholdSteps ==
    {"wam_init", "cl_thr", "cp_thr", "cs_thr", "nan_cl", "nan_cp", "nan_cs"}
VisualizeSteps == {"subplots", "awf_nan", "tort_nan", "imshow"}
SaveSteps == {"savefig"}
WMTIDone == nb = "wmti" /\ pc = "done"

\* C3, as stated: in a complete run the phases follow one another as load,
\* mask, smooth, fit, derive, threshold/mask, visualize, save; every fit and
\* every derivation precedes the threshold/mask steps; the save is last.
C3_FitsAndDerivationsBeforeMask ==
    WMTIDone =>
        /\ Precedes(LoadSteps, BrainMaskSteps)
        /\ Precedes(BrainMaskSteps, SmoothSteps)
        /\ Precedes(SmoothSteps, FitSteps)
        /\ Precedes(FitSteps, DeriveSteps)
        /\ Precedes(DeriveSteps, ThresholdSteps)
        /\ Precedes(ThresholdSteps, VisualizeSteps)
        /\ Precedes(VisualizeSteps, SaveSteps)
        /\ log[Len(log)] = "savefig"

\* C3, amended: load, brain mask and smoothing come first, in that order;
\* the DKI fit precedes every threshold/mask step; cl, cp and cs are each
\* derived before the steps that test them; the WMTI fit and the derivation
\* of AWF, TORT and MK come after the last threshold/mask step and before the
\* other plotting steps; a complete run has executed every statement and the
\* PNG save is its last one.
C3_Order ==
    nb = "wmti" =>
        /\ Precedes(LoadSteps, BrainMaskSteps)
        /\ Precedes(BrainMaskSteps, SmoothSteps)
        /\ Precedes(SmoothSteps, {"dki_fit"})
        /\ Precedes({"dki_fit"}, ThresholdSteps \cup DeriveSteps)
        /\ Precedes({"cl_copy"}, {"cl_thr", "nan_cl"})
        /\ Precedes({"cp_copy"}, {"cp_thr", "nan_cp"})
        /\ Precedes({"cs_copy"}, {"cs_thr", "nan_cs"})
        /\ Precedes(ThresholdSteps, {"micro_fit"})
        /\ Precedes({"micro_fit"}, {"awf", "tort", "mk"})
        /\ Precedes({"awf", "tort", "mk"}, VisualizeSteps)
        /\ Precedes(VisualizeSteps, SaveSteps)
        /\ pc = "done" =>
              /\ \A l \in Labels(WMTIProgram) : Executed(l)
              /\ log[Len(log)] = "savefig"
              /\ PngWMTI \in files

\* A complete run of the WMTI notebook.
C3_Witness == WMTIDone /\ Executed("micro_fit") /\ PngWMTI \in files

TractDone == nb = "tract" /\ pc = "done"

\* C4, as stated: every complete run of the tractography notebook has
\* written both the PNG and the tractogram file.
C4_BothArtifacts == TractDone => {PngTract, TrkTract} \subseteq files

\* C4, amended: every complete run has written the tractogram file, and has
\* written the PNG exactly when has_fury is true.
C4_TrkAlwaysPngIffFury ==
    TractDone => (TrkTract \in files /\ (PngTract \in files <=> has_fury))

\* A complete run in an environment without the visualization package.
C4_Witness == TractDone /\ ~has_fury /\ files = {TrkTract}

\* Statements of the body of "if has_fury:".
FuryBody == {"line_colors", "actor_line", "scene", "record", "show"}

\* C5, as stated: a complete run of either notebook has executed every
\* statement exactly once.
C5_EveryStatementOnce ==
    pc = "done" => \A l \in Labels(Program(nb)) : Count(l) = 1

\* C5, amended: a complete run has executed every statement exactly once,
\* except the smoothing loop, whose body runs data.shape[-1] times (its
\* header once more), and the body of "if has_fury:", which runs once when
\* has_fury is true and not at all otherwise.
C5_CountsFollowShapeAndFury ==
    pc = "done" =>
        \A l \in Labels(Program(nb)) :
            Count(l) =
                IF nb = "wmti" /\ l = "smooth_body" THEN nvol
                ELSE IF nb = "wmti" /\ l = "smooth_for" THEN nvol + 1
                ELSE IF nb = "tract" /\ l \in FuryBody
                     THEN (IF has_fury THEN 1 ELSE 0)
                ELSE 1

\* A complete WMTI run on data with more than one volume.
C5_Witness == WMTIDone /\ nvol > 1 /\ Count("smooth_body") = nvol

\* C6: the seeds are 8 per voxel of label 2: their number is 8 times the
\* number of such voxels, each such voxel holds exactly 8 seeds, all
\* different, and every seed lies in a voxel of label 2.
C6_SeedsGrid ==
    (nb = "tract" /\ Executed("seeds")) =>
        LET cc == {i \in Vox : labels[i] = 2}
            In(i) == {r \in DOMAIN seeds :
                         VoxelOf(seeds[r], affine, Density) = VoxCoord(i)}
        IN /\ Len(seeds) = 8 * Cardinality(cc)
           /\ \A i \in cc :
                 /\ Cardinality(In(i)) = 8
                 /\ Cardinality({seeds[r] : r \in In(i)}) = 8
           /\ \A r \in DOMAIN seeds : \E i \in cc : r \in In(i)

\* Seeds were placed with a corpus-callosum voxel next to a white-matter
\* voxel of label 1, under the affine with a zoom.
C6_Witness ==
    /\ nb = "tract" /\ Executed("seeds")
    /\ \E i, j \in Vox : labels[i] = 2 /\ labels[j] = 1
    /\ affine.zoom = 2
    /\ Len(seeds) > 0

\* C8: a step that ends with a failure recorded executes no statement and
\* writes no artifact, and leaves the run stopped: this holds of the step
\* that raises and of every step after it.
C8_FailureStops ==
    [][ (failedAt' # "none") =>
            (log' = log /\ files' = files /\ pc' = "failed") ]_vars

\* The tractography run failed while recording the PNG: neither artifact
\* exists.
C8_Witness ==
    /\ nb = "tract" /\ failedAt = "record" /\ pc = "failed"
    /\ files = {}

\* C11: well_aligned_mask is created with every voxel True, and every later
\* step leaves a voxel that is False in it False: after any prefix of the
\* six exclusion steps an excluded voxel is never included again.
C11_MaskOnlyShrinks ==
    [][ /\ (well_aligned_mask = <<>> /\ well_aligned_mask' # <<>>) =>
              \A i \in Vox : well_aligned_mask'[i]
        /\ (well_aligned_mask # <<>>) =>
              \A i \in Vox : well_aligned_mask'[i] => well_aligned_mask[i]
      ]_vars

\* All six exclusion steps have run; one voxel was excluded by the cl
\* threshold although its cp, cs pass their tests and nothing is NaN, and
\* another voxel is still included.
C11_Witness ==
    /\ MaskBuilt
    /\ \E i \in Vox :
          /\ ~well_aligned_mask[i] /\ ~AnyNaN(i)
          /\ Below(cl[i], ClThreshold)
          /\ AtMost(cs[i], CsThreshold)
    /\ \E i \in Vox : well_aligned_mask[i]

\* C12: once the plotting cell has replaced the zeros, AWF and TORT hold NaN
\* at every voxel where the microstructure fit returned 0, which includes
\* every voxel outside well_aligned_mask, and the fit's value everywhere
\* else, so that no entry is 0; and the two replacements leave MK as it was.
C12_ZerosBecomeNaN ==
    /\ [] ((nb = "wmti" /\ Executed("tort_nan")) =>
              \A i \in Vox :
                 LET fit == dki_micro_fit.params[i]
                 IN /\ AWF[i] = IF fit.awf = 0 THEN NaN ELSE Num(fit.awf, 100)
                    /\ TORT[i] = IF fit.tort = 0 THEN NaN ELSE Num(fit.tort, 1)
                    /\ AWF[i] # Num(0, 100) /\ TORT[i] # Num(0, 1)
                    /\ (~well_aligned_mask[i]) =>
                          (AWF[i] = NaN /\ TORT[i] = NaN))
    /\ [][ (pc \in {"awf_nan", "tort_nan"}) => MK' = MK ]_vars

\* The zeros were replaced in a run where one well-aligned voxel has a fit
\* result, another voxel has none, and MK is not zero everywhere.
C12_Witness ==
    /\ nb = "wmti" /\ Executed("tort_nan")
    /\ \E i \in Vox : well_aligned_mask[i] /\ dki_micro_fit.params[i].awf # 0
    /\ \E i \in Vox : dki_micro_fit.params[i].awf = 0 /\ AWF[i] = NaN
    /\ \E i \in Vox : MK[i] # Num(0, 1)

\* The statement the run is at, or was at when it failed.
At == IF pc = "failed" THEN failedAt ELSE pc
\* The smoothing loop has been entered and left.
PastLoop ==
    /\ nb = "wmti" /\ Executed("smooth_for")
    /\ At \notin {"smooth_for", "smooth_body"}

\* C13: the smoothing loop is left after exactly data.shape[-1] executions
\* of its body; by then every volume v of data_smooth is the filtered volume
\* v of data; each execution of the body writes one volume, index v, that
\* still held its initial zeros, and nothing else writes data_smooth; data
\* is never changed once loaded.
C13_SmoothingLoop ==
    /\ [] (PastLoop =>
              /\ Count("smooth_body") = nvol
              /\ it = nvol
              /\ \A i \in 0..(nvol - 1) :
                    data_smooth[i] = [kind |-> "smooth", idx |-> data[i].idx]
              /\ \A i, j \in 0..(nvol - 1) :
                    data_smooth[i].idx = data[j].idx => i = j)
    /\ [] ((nb = "wmti" /\ Executed("smooth_init")) =>
              Count("smooth_body") <= nvol)
    /\ [] ((nb = "wmti" /\ pc = "smooth_body") => data_smooth[v] = ZeroVolume)
    /\ [][ (data_smooth # <<>> /\ data_smooth' # data_smooth) =>
              /\ pc = "smooth_body"
              /\ \A i \in 0..(nvol - 1) :
                    i # v => data_smooth'[i] = data_smooth[i] ]_vars
    /\ [][ data # <<>> => data' = data ]_vars

\* The loop has just been left on data with more than one volume.
C13_Witness ==
    /\ nb = "wmti" /\ pc = "micro_model" /\ nvol > 1
    /\ data_smooth[nvol - 1].kind = "smooth"

====
